---- MODULE Spec2Model ----
(***************************************************************************)
(* A model of the four example programs of the repository:                 *)
(*   "dispatch"   src/src/main.rs                      (compute dispatch)  *)
(*   "mandelbrot" src/examples/compute-mandelbrot/main.rs                  *)
(*   "images"     src/examples/images/main.rs                              *)
(*   "graphics"   src/examples/graphics/main.rs         (windowed loop)    *)
(* The host thread of each program is a program counter `pc` walking       *)
(* through main; the GPU is a second process that executes what was        *)
(* submitted and signals fences.  Every fallible library call may fail.    *)
(* Specification Spec runs one of the programs; SpecSelect applies the     *)
(* device-selection expressions to enumerated device lists.                *)
(***************************************************************************)
EXTENDS Integers, Sequences, FiniteSets, TLC

VARIABLES
    prog,            \* which program runs
    status,          \* "running" | "exited" | "panicked"
    pc,              \* position of the host thread in main
    failures,        \* the library calls that have returned an error so far
    created,         \* resource kind -> number of handles created so far
    stats,           \* counts of builds, submits, fence waits, reads; files
    commands,        \* headless: the recorded command buffer
    gpu_pending,     \* headless: submitted commands the GPU has not executed
    fence,           \* headless: "none" | "unsignalled" | "signalled"
    data_buffer,     \* dispatch: contents of data_buffer
    image,           \* mandelbrot/images: contents of the device image
    buf,             \* mandelbrot/images: contents of the host buffer
    content,         \* what Buffer::read returned
    window_size,        \* graphics: window.inner_size()
    window_resized,     \* graphics: the flag set by WindowEvent::Resized
    recreate_swapchain, \* graphics: the flag set by a suboptimal/OutOfDate frame
    my_swapchain,       \* graphics: the current swapchain
    viewport,           \* graphics: viewport.extent
    command_buffers,    \* graphics: one recorded command buffer per framebuffer
    fences,             \* graphics: per image, 0 (None) or the id of a fence
    frames_in_flight,   \* graphics: images.len() of the initial swapchain
    previous_fence_i,   \* graphics: image index of the previous iteration
    image_i,            \* graphics: image index acquired in this iteration
    acquired,           \* graphics: images of my_swapchain not available
    inflight,           \* graphics: submissions the GPU has not finished
    waited,             \* graphics: did this iteration block on a fence
    frame,              \* graphics: the locals of the latest iteration
    devices,            \* selection: the enumerated physical devices
    selection           \* selection: what the selection expression yielded

hvars == <<stats, commands, gpu_pending, fence, data_buffer, image, buf, content>>

gvars == <<window_size, window_resized, recreate_swapchain, my_swapchain,
           viewport, command_buffers, fences, frames_in_flight,
           previous_fence_i, image_i, acquired, inflight, waited, frame>>

svars == <<devices, selection>>

vars == <<prog, status, pc, failures, created, hvars, gvars, svars>>

Headless == {"dispatch", "mandelbrot", "images"}

(***************************************************************************)
(* Program constants.                                                      *)
(***************************************************************************)
DataLen == 65536
WorkGroupCountX == 1024
CpuFactor == 12
ImageSide == 1024
BytesPerTexel == 4
MandelbrotLocalSize == 8

\* cs.rs (the compute shader of src/src/main.rs) is not among the sources:
\* the shader applies the transform the CPU loop applies, one invocation per
\* element, LocalSizeX invocations per work group.
LocalSizeX == 64
ShaderFactor == 12

Resources == {"instance", "device", "queue", "memory_allocator", "buffer", "image",
              "image_view", "shader", "pipeline", "descriptor_set",
              "command_buffer_allocator", "command_buffer", "window", "surface",
              "swapchain", "render_pass", "framebuffers", "fragment_shader"}

\* One library call of main: its name, whether it returns a Result/Option that
\* is unwrapped, and the resource handle it yields ("" for none).
Call(name, fallible, creates) ==
    [call |-> name, fallible |-> fallible, creates |-> creates]

Cmd(op, arg) == [op |-> op, arg |-> arg]

(***************************************************************************)
(* src/src/main.rs: the calls of main, stage by stage, in program order.   *)
(***************************************************************************)
DispatchMain(stage) ==
    CASE stage = "setup" ->
           << Call("VulkanLibrary::new", TRUE, ""),
              Call("Instance::new", TRUE, "instance"),
              Call("enumerate_physical_devices", TRUE, ""),
              Call("physical_devices.next", TRUE, ""),
              Call("queue_family.position", TRUE, ""),
              Call("Device::new", TRUE, "device"),
              Call("queues.next", TRUE, "queue"),
              Call("StandardMemoryAllocator::new_default", FALSE, "memory_allocator") >>
      [] stage = "resources" ->
           << Call("Buffer::from_iter", TRUE, "buffer"),
              Call("cs::load", TRUE, "shader"),
              Call("shader.entry_point", TRUE, ""),
              Call("into_pipeline_layout_create_info", TRUE, ""),
              Call("PipelineLayout::new", TRUE, ""),
              Call("ComputePipeline::new", TRUE, "pipeline"),
              Call("set_layouts.get", TRUE, ""),
              Call("PersistentDescriptorSet::new", TRUE, "descriptor_set") >>
      [] stage = "record" ->
           << Call("StandardCommandBufferAllocator::new", FALSE, "command_buffer_allocator"),
              Call("AutoCommandBufferBuilder::primary", TRUE, ""),
              Call("bind_pipeline_compute", TRUE, ""),
              Call("bind_descriptor_sets", TRUE, ""),
              Call("dispatch", TRUE, ""),
              Call("build", TRUE, "command_buffer") >>
      [] stage = "submit" ->
           << Call("then_execute", TRUE, ""),
              Call("then_signal_fence_and_flush", TRUE, "") >>
      [] stage = "wait" ->
           << Call("future.wait", TRUE, "") >>
      [] stage = "readback" ->
           << Call("gpu_start.elapsed", TRUE, ""),
              Call("cpu_start.elapsed", TRUE, ""),
              Call("data_buffer.read", TRUE, ""),
              Call("assert_eq", FALSE, "") >>

\* src/src/main.rs:127-142: the commands recorded into the command buffer.
WorkGroupCountsShort == <<WorkGroupCountX - 1, 1, 1>>
WorkGroupCounts == <<WorkGroupCountX, 1, 1>>

DispatchCommandsWithCopy ==
    << Cmd("bind_pipeline_compute", <<>>),
       Cmd("bind_descriptor_sets", <<>>),
       Cmd("dispatch", WorkGroupCounts),
       Cmd("copy_buffer", <<>>) >>
DispatchCommands ==
    << Cmd("bind_pipeline_compute", <<>>),
       Cmd("bind_descriptor_sets", <<>>),
       Cmd("dispatch", WorkGroupCounts) >>

(***************************************************************************)
(* Contents of data_buffer (65536 u32).  Element i starts as i; the only   *)
(* writer is the dispatch, whose invocation i rewrites element i.  So a    *)
(* content is kept in closed form: element i is i * times for i < upto     *)
(* (the elements an invocation has rewritten) and i for the others.        *)
(***************************************************************************)
Elem(b, i) == IF i < b.upto THEN i * b.times ELSE i

\* src/src/main.rs:63-77: data_buffer is filled from the iterator 0..65536.
InitialData == [len |-> DataLen, times |-> 1, upto |-> 0]

\* src/src/main.rs:160-165: cpu_buffer, every element multiplied by 12.  The
\* elements are u32; the largest product, 65535 * 12, is far below 2^32, so
\* no multiplication of the program wraps or overflows.
CpuTransform(n) == n * CpuFactor

\* cpu_buffer after the loop: element i of 0..65536, transformed.
CpuBuffer(i) == CpuTransform(i)

Min(a, b) == IF a < b THEN a ELSE b

\* src/src/main.rs:175-177: the zip of the two iterators, compared pairwise.
ValuesMatch(gpu) ==
    \A i \in 0..(Min(gpu.len, DataLen) - 1) : Elem(gpu, i) = CpuBuffer(i)

\* The compute shader: the invocation with global id gid multiplies element
\* gid of the buffer.
ShaderMain(x) == x * ShaderFactor

\* The effect of the dispatch of `groups` work groups on a buffer no
\* invocation has written yet: groups[1] * LocalSizeX invocations, one global
\* id each; an id outside the buffer writes nothing.
RunDispatch(groups, b) ==
    LET n == groups[1] * groups[2] * groups[3] * LocalSizeX
    IN  [b EXCEPT !.times = ShaderMain(b.times), !.upto = Min(n, b.len)]

(***************************************************************************)
(* src/examples/compute-mandelbrot/main.rs                                 *)
(***************************************************************************)
MandelbrotMain(stage) ==
    CASE stage = "setup" ->
           << Call("VulkanLibrary::new", TRUE, ""),
              Call("Instance::new", TRUE, "instance"),
              Call("enumerate_physical_devices", TRUE, ""),
              Call("physical_devices.next", TRUE, ""),
              Call("queue_family.position", TRUE, ""),
              Call("Device::new", TRUE, "device"),
              Call("queues.next", TRUE, "queue"),
              Call("StandardMemoryAllocator::new_default", FALSE, "memory_allocator") >>
      [] stage = "resources" ->
           << Call("cs::load", TRUE, "shader"),
              Call("shader.entry_point", TRUE, ""),
              Call("into_pipeline_layout_create_info", TRUE, ""),
              Call("PipelineLayout::new", TRUE, ""),
              Call("ComputePipeline::new", TRUE, "pipeline"),
              Call("Image::new", TRUE, "image"),
              Call("ImageView::new_default", TRUE, "image_view"),
              Call("set_layouts.get", TRUE, ""),
              Call("PersistentDescriptorSet::new", TRUE, "descriptor_set"),
              Call("Buffer::from_iter", TRUE, "buffer") >>
      [] stage = "record" ->
           << Call("StandardCommandBufferAllocator::new", FALSE, "command_buffer_allocator"),
              Call("AutoCommandBufferBuilder::primary", TRUE, ""),
              Call("bind_pipeline_compute", TRUE, ""),
              Call("bind_descriptor_sets", TRUE, ""),
              Call("dispatch", TRUE, ""),
              Call("copy_image_to_buffer", TRUE, ""),
              Call("build", TRUE, "command_buffer") >>
      [] stage = "submit" ->
           << Call("then_execute", TRUE, ""),
              Call("then_signal_fence_and_flush", TRUE, "") >>
      [] stage = "wait" ->
           << Call("future.wait", TRUE, "") >>
      [] stage = "readback" ->
           << Call("buf.read", TRUE, ""),
              Call("ImageBuffer::from_raw", FALSE, ""),
              Call("image_buf.save", TRUE, "") >>

\* src/examples/compute-mandelbrot/main.rs:150-167
MandelbrotCommands ==
    << Cmd("bind_pipeline_compute", <<>>),
       Cmd("bind_descriptor_sets", <<>>),
       Cmd("dispatch", <<ImageSide \div MandelbrotLocalSize,
                         ImageSide \div MandelbrotLocalSize, 1>>),
       Cmd("copy_image_to_buffer", <<>>) >>

(***************************************************************************)
(* src/examples/images/main.rs                                             *)
(***************************************************************************)
ImagesMain(stage) ==
    CASE stage = "setup" ->
           << Call("VulkanLibrary::new", TRUE, ""),
              Call("Instance::new", TRUE, "instance"),
              Call("enumerate_physical_devices", TRUE, ""),
              Call("physical_devices.next", TRUE, ""),
              Call("queue_family.position", TRUE, ""),
              Call("Device::new", TRUE, "device"),
              Call("queues.next", TRUE, "queue"),
              Call("StandardMemoryAllocator::new_default", FALSE, "memory_allocator") >>
      [] stage = "resources" ->
           << Call("Image::new", TRUE, "image"),
              Call("Buffer::from_iter", TRUE, "buffer") >>
      [] stage = "record" ->
           << Call("StandardCommandBufferAllocator::new", FALSE, "command_buffer_allocator"),
              Call("AutoCommandBufferBuilder::primary", TRUE, ""),
              Call("clear_color_image", TRUE, ""),
              Call("copy_buffer_to_image", TRUE, ""),
              Call("build", TRUE, "command_buffer") >>
      [] stage = "submit" ->
           << Call("then_execute", TRUE, ""),
              Call("then_signal_fence_and_flush", TRUE, "") >>
      [] stage = "wait" ->
           << Call("future.wait", TRUE, "") >>
      [] stage = "readback" ->
           << Call("buf.read", TRUE, ""),
              Call("ImageBuffer::from_raw", FALSE, ""),
              Call("image.save", TRUE, "") >>

\* src/examples/images/main.rs:107-117
ImagesCommandsCopyBack ==
    << Cmd("clear_color_image", <<0, 0, 1, 1>>),
       Cmd("copy_image_to_buffer", <<>>) >>
ImagesCommands ==
    << Cmd("clear_color_image", <<0, 0, 1, 1>>),
       Cmd("copy_buffer_to_image", <<>>) >>

(***************************************************************************)
(* Contents of the 1024 x 1024 R8G8B8A8 image and of the host byte buffer. *)
(* Both hold the same four bytes in every texel or are the output of the   *)
(* mandelbrot shader, so a content is a kind and the bytes of one texel:   *)
(* byte i of a "texels" content is texel[(i % 4) + 1].                     *)
(***************************************************************************)
NoContent == [kind |-> "none", len |-> 0, texel |-> <<>>]

ImageBytes == ImageSide * ImageSide * BytesPerTexel

\* Image::new: device memory, never written.
NewImage == [kind |-> "undefined", len |-> ImageBytes, texel |-> <<>>]

\* src/examples/images/main.rs:70-78: byte i is 255 for i % 4 in {0, 3}, else 0.
PixelByte(i) ==
    CASE i % 4 = 0 -> 255
      [] i % 4 = 1 -> 0
      [] i % 4 = 2 -> 0
      [] i % 4 = 3 -> 255

ImagesBuf ==
    [kind |-> "texels", len |-> ImageBytes,
     texel |-> [k \in 1..BytesPerTexel |-> PixelByte(k - 1)]]

\* src/examples/compute-mandelbrot/main.rs:122-135: 1024 * 1024 * 4 zero bytes.
MandelbrotBufShort ==
    [kind |-> "texels", len |-> 1024 * 1024 * 3,
     texel |-> [k \in 1..BytesPerTexel |-> 0]]
MandelbrotBuf ==
    [kind |-> "texels", len |-> 1024 * 1024 * 4,
     texel |-> [k \in 1..BytesPerTexel |-> 0]]

\* A float clear colour stored into an 8-bit UNORM channel.
Unorm8(x) == x * 255

Main(p, stage) ==
    CASE p = "dispatch" -> DispatchMain(stage)
      [] p = "mandelbrot" -> MandelbrotMain(stage)
      [] p = "images" -> ImagesMain(stage)

RecordedCommands(p) ==
    CASE p = "dispatch" -> DispatchCommands
      [] p = "mandelbrot" -> MandelbrotCommands
      [] p = "images" -> ImagesCommands

OutputFileSame(p) ==
    CASE p = "dispatch" -> {}
      [] p = "mandelbrot" -> {"image.png"}
      [] p = "images" -> {"image.png"}
OutputFile(p) ==
    CASE p = "dispatch" -> {}
      [] p = "mandelbrot" -> {"mandelbrot.png"}
      [] p = "images" -> {"image.png"}

(***************************************************************************)
(* Running a stage of main: the calls are made in order; outcome k = 0     *)
(* means every call returned Ok/Some, k > 0 that call k returned Err/None. *)
(***************************************************************************)
Outcomes(calls) == {0} \cup {k \in 1..Len(calls) : calls[k].fallible}

CreatedBy(calls, n) == {calls[j].creates : j \in 1..n} \ {""}

Bump(c, S) == [r \in Resources |-> IF r \in S THEN c[r] + 1 ELSE c[r]]

\* .expect(..) / .unwrap() of the Result of call k: a failure panics, which
\* ends the process; the calls before it have been made.
UnwrapAll(calls, k, nextpc) ==
    IF k = 0
    THEN /\ pc' = nextpc
         /\ failures' = failures
         /\ created' = Bump(created, CreatedBy(calls, Len(calls)))
    ELSE /\ pc' = pc
         /\ failures' = failures \cup {calls[k].call}
         /\ created' = Bump(created, CreatedBy(calls, k - 1))

StatusAfter(k) == IF k = 0 THEN "running" ELSE "panicked"

IndexOf(calls, name) == CHOOSE j \in 1..Len(calls) : calls[j].call = name

(***************************************************************************)
(* The host thread of the three programs without a window.                 *)
(***************************************************************************)
Setup ==
    /\ prog \in Headless /\ status = "running" /\ pc = "setup"
    /\ \E k \in Outcomes(Main(prog, "setup")) :
          /\ UnwrapAll(Main(prog, "setup"), k, "resources")
          /\ status' = StatusAfter(k)
    /\ UNCHANGED <<svars, gvars, prog, stats, commands, gpu_pending, fence, data_buffer,
                   image, buf, content>>

CreateResources ==
    /\ prog \in Headless /\ status = "running" /\ pc = "resources"
    /\ \E k \in Outcomes(Main(prog, "resources")) :
          /\ UnwrapAll(Main(prog, "resources"), k, "record")
          /\ status' = StatusAfter(k)
          /\ data_buffer' = IF k = 0 /\ prog = "dispatch" THEN InitialData
                            ELSE data_buffer
          /\ image' = IF k = 0 /\ prog # "dispatch" THEN NewImage ELSE image
          /\ buf' = CASE k = 0 /\ prog = "mandelbrot" -> MandelbrotBuf
                      [] k = 0 /\ prog = "images" -> ImagesBuf
                      [] OTHER -> buf
    /\ UNCHANGED <<svars, gvars, prog, stats, commands, gpu_pending, fence, content>>

RecordCommands ==
    /\ prog \in Headless /\ status = "running" /\ pc = "record"
    /\ \E k \in Outcomes(Main(prog, "record")) :
          /\ UnwrapAll(Main(prog, "record"), k, "submit")
          /\ status' = StatusAfter(k)
          /\ commands' = IF k = 0 THEN RecordedCommands(prog) ELSE commands
          /\ stats' = IF k = 0 THEN [stats EXCEPT !.builds = @ + 1] ELSE stats
    /\ UNCHANGED <<svars, gvars, prog, gpu_pending, fence, data_buffer, image, buf, content>>

\* sync::now(..).then_execute(..).then_signal_fence_and_flush(): the command
\* buffer goes to the queue with a fence that is signalled when it completes.
Submit ==
    /\ prog \in Headless /\ status = "running" /\ pc = "submit"
    /\ \E k \in Outcomes(Main(prog, "submit")) :
          /\ UnwrapAll(Main(prog, "submit"), k, "wait")
          /\ status' = StatusAfter(k)
          /\ gpu_pending' = IF k = 0 THEN commands ELSE gpu_pending
          /\ fence' = IF k = 0 THEN "unsignalled" ELSE fence
          /\ stats' = IF k = 0 THEN [stats EXCEPT !.submits = @ + 1] ELSE stats
    /\ UNCHANGED <<svars, gvars, prog, commands, data_buffer, image, buf, content>>

\* future.wait(None) returns Ok only once the fence is signalled.
WaitReturnsEarly == TRUE
WaitReturns == fence = "signalled"

WaitFence ==
    /\ prog \in Headless /\ status = "running" /\ pc = "wait"
    /\ \E k \in Outcomes(Main(prog, "wait")) :
          /\ k = 0 => WaitReturns
          /\ UnwrapAll(Main(prog, "wait"), k, "readback")
          /\ status' = StatusAfter(k)
          /\ stats' = IF k = 0 THEN [stats EXCEPT !.waits = @ + 1] ELSE stats
    /\ UNCHANGED <<svars, gvars, prog, commands, gpu_pending, fence, data_buffer, image,
                   buf, content>>

\* ImageBuffer::from_raw(w, h, container): Some iff the container is long enough.
FromRawOk(w, h, c) == c.len >= w * h * BytesPerTexel

ReadCall(p) == IF p = "dispatch" THEN "data_buffer.read" ELSE "buf.read"

\* The call of the read-back stage whose outcome the data decides.
CheckCall(p) == IF p = "dispatch" THEN "assert_eq" ELSE "ImageBuffer::from_raw"

\* Buffer::read, then (dispatch) the CPU loop and the assert_eq over the zip,
\* or (mandelbrot, images) ImageBuffer::from_raw and save; then main returns.
ReadBack ==
    /\ prog \in Headless /\ status = "running" /\ pc = "readback"
    /\ LET calls == Main(prog, "readback")
           r == IndexOf(calls, ReadCall(prog))
           c == IndexOf(calls, CheckCall(prog))
       IN  \E e \in Outcomes(calls) :
              LET didRead == e = 0 \/ e > r
                  got == IF ~didRead THEN content
                         ELSE IF prog = "dispatch" THEN data_buffer ELSE buf
                  reached == e = 0 \/ e > c
                  ok == IF prog = "dispatch"
                        THEN ValuesMatch(got)
                        ELSE FromRawOk(ImageSide, ImageSide, got)
                  k == IF reached /\ ~ok THEN c ELSE e
              IN  /\ UnwrapAll(calls, k, "done")
                  /\ status' = IF k = 0 THEN "exited" ELSE "panicked"
                  /\ content' = got
                  /\ stats' = [stats EXCEPT
                                 !.reads = IF didRead THEN @ + 1 ELSE @,
                                 !.files = IF k = 0 THEN @ \cup OutputFile(prog)
                                           ELSE @]
    /\ UNCHANGED <<svars, gvars, prog, commands, gpu_pending, fence, data_buffer, image, buf>>

(***************************************************************************)
(* The GPU: it executes the commands of the submitted command buffer in    *)
(* order, then signals the fence.  It runs while the process lives.        *)
(***************************************************************************)
GpuExecute ==
    /\ prog \in Headless /\ status = "running" /\ gpu_pending # <<>>
    /\ LET cmd == Head(gpu_pending)
       IN  /\ data_buffer' =
                 IF cmd.op = "dispatch" /\ prog = "dispatch"
                 THEN RunDispatch(cmd.arg, data_buffer) ELSE data_buffer
           /\ image' =
                 CASE cmd.op = "dispatch" /\ prog = "mandelbrot" ->
                        [image EXCEPT !.kind = "shader_output", !.texel = <<>>]
                   [] cmd.op = "clear_color_image" ->
                        [image EXCEPT !.kind = "texels",
                            !.texel = [k \in 1..BytesPerTexel |-> Unorm8(cmd.arg[k])]]
                   [] cmd.op = "copy_buffer_to_image" ->
                        [image EXCEPT !.kind = buf.kind, !.texel = buf.texel]
                   [] OTHER -> image
           /\ buf' =
                 IF cmd.op = "copy_image_to_buffer"
                 THEN [buf EXCEPT !.kind = image.kind, !.texel = image.texel]
                 ELSE buf
    /\ gpu_pending' = Tail(gpu_pending)
    /\ UNCHANGED <<svars, gvars, prog, status, pc, failures, created, stats, commands, fence,
                   content>>

GpuSignalFence ==
    /\ prog \in Headless /\ status = "running"
    /\ fence = "unsignalled" /\ gpu_pending = <<>>
    /\ fence' = "signalled"
    /\ UNCHANGED <<svars, gvars, prog, status, pc, failures, created, stats, commands,
                   gpu_pending, data_buffer, image, buf, content>>

(***************************************************************************)
(* src/examples/graphics/main.rs: the windowed program.                    *)
(***************************************************************************)
MaxImages == 3
MaxRecreate == 1
MinImages == 2

\* The image counts a swapchain may come with: at least the requested
\* min_image_count (capabilities.min_image_count + 1, so at least 2).
ImageCounts == MinImages..MaxImages

WindowSizes == {<<1024, 1024>>, <<800, 600>>}

\* src/examples/graphics/main.rs:309-313
ViewportInit == <<1024, 1024>>

GraphicsMain(stage) ==
    CASE stage = "setup" ->
           << Call("EventLoop::new", FALSE, ""),
              Call("VulkanLibrary::new", TRUE, ""),
              Call("Window::new", TRUE, "window"),
              Call("Instance::new", TRUE, "instance"),
              Call("Surface::from_window", TRUE, "surface"),
              Call("enumerate_physical_devices", TRUE, ""),
              \* p.surface_support(..).unwrap_or(false): an Err is not unwrapped
              Call("surface_support", FALSE, ""),
              Call("min_by_key", TRUE, ""),
              Call("Device::new", TRUE, "device"),
              Call("queues.next", TRUE, "queue"),
              Call("StandardMemoryAllocator::new_default", FALSE, "memory_allocator") >>
      [] stage = "resources" ->
           << Call("surface_capabilities", TRUE, ""),
              Call("supported_composite_alpha.next", TRUE, ""),
              Call("surface_formats", TRUE, ""),
              Call("Swapchain::new", TRUE, "swapchain"),
              Call("Buffer::from_iter", TRUE, "buffer"),
              Call("single_pass_renderpass", TRUE, "render_pass"),
              Call("get_framebuffers", TRUE, "framebuffers"),
              Call("shaders::load_vertex", TRUE, "shader"),
              Call("shaders::load_fragment", TRUE, "fragment_shader"),
              Call("get_pipeline", TRUE, "pipeline"),
              Call("StandardCommandBufferAllocator::new", FALSE, "command_buffer_allocator"),
              Call("get_command_buffers", TRUE, "command_buffer") >>

\* The images of a swapchain: image index i of swapchain generation gen.
SwapchainImages(sc) == [i \in 1..sc.count |-> <<sc.gen, i - 1>>]

\* get_framebuffers: one framebuffer per image, in order.
GetFramebuffers(images) == [i \in 1..Len(images) |-> [attachment |-> images[i]]]

\* get_pipeline: the pipeline has the viewport it was built with.
GetPipelineInitialViewport(vp) == [viewport |-> ViewportInit]
GetPipeline(vp) == [viewport |-> vp]

\* get_command_buffers: one command buffer per framebuffer, in order, each
\* recording a render pass into that framebuffer with the pipeline bound.
GetCommandBuffers(pipeline, framebuffers) ==
    [i \in 1..Len(framebuffers) |->
        [framebuffer |-> framebuffers[i], pipeline |-> pipeline]]

NoSwapchain == [gen |-> 0, extent |-> <<0, 0>>, count |-> 0]

\* Swapchain::new / my_swapchain.recreate with image_extent = dims; the
\* driver decides the number of images.
NewSwapchain(gen, dims, n) == [gen |-> gen, extent |-> dims, count |-> n]

\* src/examples/graphics/main.rs:367-397: the calls of the recreation block.
RecreateCallsWithRenderPass(resized) ==
    IF resized
    THEN << Call("my_swapchain.recreate", TRUE, "swapchain"),
            Call("single_pass_renderpass", TRUE, "render_pass"),
            Call("get_framebuffers", TRUE, "framebuffers"),
            Call("get_pipeline", TRUE, "pipeline"),
            Call("get_command_buffers", TRUE, "command_buffer") >>
    ELSE << Call("my_swapchain.recreate", TRUE, "swapchain") >>
RecreateCalls(resized) ==
    IF resized
    THEN << Call("my_swapchain.recreate", TRUE, "swapchain"),
            Call("get_framebuffers", TRUE, "framebuffers"),
            Call("get_pipeline", TRUE, "pipeline"),
            Call("get_command_buffers", TRUE, "command_buffer") >>
    ELSE << Call("my_swapchain.recreate", TRUE, "swapchain") >>

\* The fence ids in use, and a fresh one.
FenceIds == {s.fence : s \in inflight} \cup {fences[i] : i \in DOMAIN fences}

FreshFence == CHOOSE n \in 1..(Cardinality(FenceIds) + 1) :
                 /\ n \notin FenceIds
                 /\ \A m \in 1..(n - 1) : m \in FenceIds

\* A fence is signalled once the GPU has finished the submission it belongs to.
FenceSignalledEarly(f) == TRUE
FenceSignalled(f) == \A s \in inflight : s.fence # f

\* The arms of the two matches of the render loop on an Err.
OnAcquireErrorContinue == "running"
OnAcquireError == "panicked"

OnFlushError == "running"

\* The locals of one MainEventsCleared iteration: the image index and the
\* suboptimal flag acquire_next_image returned, the fence previous_future was
\* made from (0: sync::now), and how then_signal_fence_and_flush ended.
NoFrame == [image_i |-> 0, suboptimal |-> FALSE, previous |-> 0, flush |-> "none"]

\* Lines 415-422: fences[previous_fence_i].clone(), None giving sync::now.
\* Lines 436-443: the arm Err(VulkanError::OutOfDate) sets recreate_swapchain.
SetsRecreateNever(r) == FALSE
SetsRecreate(r) == r = "OutOfDate"

PreviousFutureOfImage == fences[image_i + 1]
PreviousFuture == fences[previous_fence_i + 1]

\* The closure returns: its locals (image_i, the result of the fence wait) are
\* gone, and the event loop delivers the next event.
EndIteration ==
    /\ pc' = "events"
    /\ image_i' = 0
    /\ waited' = FALSE

GPanic(call) ==
    /\ status' = "panicked"
    /\ failures' = failures \cup {call}

GraphicsSetup ==
    /\ prog = "graphics" /\ status = "running" /\ pc = "setup"
    /\ LET calls == GraphicsMain("setup")
           ss == IndexOf(calls, "surface_support")
       IN  \E k \in Outcomes(calls), sserr \in BOOLEAN :
              /\ sserr => (k = 0 \/ k > ss)
              /\ pc' = IF k = 0 THEN "resources" ELSE pc
              /\ created' = Bump(created, CreatedBy(calls,
                                 IF k = 0 THEN Len(calls) ELSE k - 1))
              /\ failures' = failures
                                \cup (IF k = 0 THEN {} ELSE {calls[k].call})
                                \cup (IF sserr THEN {"surface_support"} ELSE {})
              /\ status' = StatusAfter(k)
    /\ UNCHANGED <<prog, hvars, gvars, svars>>

\* src/examples/graphics/main.rs:240-341
GraphicsResources ==
    /\ prog = "graphics" /\ status = "running" /\ pc = "resources"
    /\ \E k \in Outcomes(GraphicsMain("resources")), n \in ImageCounts :
          /\ UnwrapAll(GraphicsMain("resources"), k, "events")
          /\ status' = StatusAfter(k)
          /\ IF k = 0
             THEN /\ my_swapchain' = NewSwapchain(0, window_size, n)
                  /\ viewport' = ViewportInit
                  /\ command_buffers' =
                        GetCommandBuffers(GetPipeline(ViewportInit),
                            GetFramebuffers(SwapchainImages(my_swapchain')))
                  /\ frames_in_flight' = Len(SwapchainImages(my_swapchain'))
                  /\ fences' = [i \in 1..frames_in_flight' |-> 0]
             ELSE UNCHANGED <<my_swapchain, viewport, command_buffers, fences,
                              frames_in_flight>>
    /\ previous_fence_i' = 0
    /\ recreate_swapchain' = FALSE
    /\ window_resized' = FALSE
    /\ UNCHANGED <<prog, hvars, svars, window_size, image_i, acquired, inflight,
                   waited, frame>>

\* WindowEvent::CloseRequested: control_flow.set_exit().
CloseRequested ==
    /\ prog = "graphics" /\ status = "running" /\ pc = "events"
    /\ status' = "exited"
    /\ UNCHANGED <<prog, pc, failures, created, hvars, gvars, svars>>

\* WindowEvent::Resized(_): the window has a new inner size.
Resized ==
    /\ prog = "graphics" /\ status = "running" /\ pc = "events"
    /\ \E sz \in WindowSizes : window_size' = sz
    /\ window_resized' = TRUE
    /\ UNCHANGED <<frame, frames_in_flight, prog, status, pc, failures, created, hvars, svars,
                   recreate_swapchain, my_swapchain, viewport, command_buffers,
                   fences, previous_fence_i, image_i, acquired, inflight, waited>>

\* Event::MainEventsCleared, lines 362-398: the recreation block.
MainEventsCleared ==
    /\ prog = "graphics" /\ status = "running" /\ pc = "events"
    /\ IF recreate_swapchain \/ window_resized
       THEN /\ my_swapchain.gen < MaxRecreate
            /\ \E k \in Outcomes(RecreateCalls(window_resized)), n \in ImageCounts :
                  /\ UnwrapAll(RecreateCalls(window_resized), k, "acquire")
                  /\ status' = StatusAfter(k)
                  /\ IF k = 0
                     THEN /\ recreate_swapchain' = FALSE
                          /\ my_swapchain' =
                                NewSwapchain(my_swapchain.gen + 1, window_size, n)
                          /\ acquired' = {}
                          /\ IF window_resized
                             THEN /\ window_resized' = FALSE
                                  /\ viewport' = window_size
                                  /\ command_buffers' =
                                        GetCommandBuffers(GetPipeline(viewport'),
                                            GetFramebuffers(SwapchainImages(my_swapchain')))
                             ELSE UNCHANGED <<window_resized, viewport, command_buffers>>
                     ELSE UNCHANGED <<recreate_swapchain, my_swapchain, acquired,
                                      window_resized, viewport, command_buffers>>
       ELSE /\ pc' = "acquire"
            /\ UNCHANGED <<status, failures, created, recreate_swapchain,
                           my_swapchain, acquired, window_resized, viewport,
                           command_buffers>>
    /\ UNCHANGED <<frame, frames_in_flight, prog, hvars, svars, window_size, fences, previous_fence_i,
                   image_i, inflight, waited>>

\* Lines 400-409: swapchain::acquire_next_image(my_swapchain, None) blocks
\* until an image of the swapchain is available, or returns an error.
AcquireNextImage ==
    /\ prog = "graphics" /\ status = "running" /\ pc = "acquire"
    /\ \/ /\ failures' = failures \cup {"acquire_next_image"}
          /\ status' = OnAcquireError
          /\ pc' = IF OnAcquireError = "running" THEN "events" ELSE pc
          /\ UNCHANGED <<image_i, acquired, recreate_swapchain, frame>>
       \/ \E i \in (0..(my_swapchain.count - 1)) \ acquired, suboptimal \in BOOLEAN :
             /\ image_i' = i
             /\ acquired' = acquired \cup {i}
             /\ frame' = [NoFrame EXCEPT !.image_i = i, !.suboptimal = suboptimal]
             /\ recreate_swapchain' = (recreate_swapchain \/ suboptimal)
             /\ pc' = "wait"
             /\ UNCHANGED <<status, failures>>
    /\ UNCHANGED <<frames_in_flight, prog, created, hvars, svars, window_size, window_resized,
                   my_swapchain, viewport, command_buffers, fences,
                   previous_fence_i, inflight, waited>>

\* Lines 411-413: if let Some(image_fence) = &fences[image_i] { wait }.
WaitImageFence ==
    /\ prog = "graphics" /\ status = "running" /\ pc = "wait"
    /\ IF image_i >= Len(fences)
       THEN /\ GPanic("fences[image_i]")
            /\ UNCHANGED <<pc, waited>>
       ELSE IF fences[image_i + 1] = 0
       THEN /\ waited' = FALSE
            /\ pc' = "submit"
            /\ UNCHANGED <<status, failures>>
       ELSE \/ /\ FenceSignalled(fences[image_i + 1])
               /\ waited' = TRUE
               /\ pc' = "submit"
               /\ UNCHANGED <<status, failures>>
            \/ /\ GPanic("image_fence.wait")
               /\ UNCHANGED <<pc, waited>>
    /\ UNCHANGED <<frame, frames_in_flight, prog, created, hvars, svars, window_size, window_resized,
                   recreate_swapchain, my_swapchain, viewport, command_buffers,
                   fences, previous_fence_i, image_i, acquired, inflight>>

\* The images of the current swapchain whose submission is among `done`.
Released(done) == {s.image : s \in {t \in done : t.swapchain = my_swapchain.gen}}

\* Lines 415-446.  A successful flush hands the command buffer and the
\* present to the queue with a new fence.  When the flush fails the future
\* is dropped, and the library's drop blocks until the queue is idle.
SubmitFrame ==
    /\ prog = "graphics" /\ status = "running" /\ pc = "submit"
    /\ IF image_i >= Len(command_buffers)
       THEN /\ GPanic("command_buffers[image_i]")
            /\ UNCHANGED <<pc, fences, previous_fence_i, recreate_swapchain,
                           inflight, acquired, image_i, waited, frame>>
       ELSE \E r \in {"Ok", "then_execute", "OutOfDate", "OtherError"} :
              CASE r = "then_execute" ->
                     /\ GPanic("then_execute")
                     /\ UNCHANGED <<pc, fences, previous_fence_i,
                                    recreate_swapchain, inflight, acquired,
                                    image_i, waited, frame>>
                [] r = "Ok" ->
                     /\ inflight' = inflight \cup
                           {[fence |-> FreshFence,
                             swapchain |-> my_swapchain.gen,
                             image |-> image_i,
                             cb |-> command_buffers[image_i + 1]]}
                     /\ fences' = [fences EXCEPT ![image_i + 1] = FreshFence]
                     /\ previous_fence_i' = image_i
                     /\ frame' = [frame EXCEPT !.previous = PreviousFuture,
                                                !.flush = r]
                     /\ EndIteration
                     /\ UNCHANGED <<status, failures, recreate_swapchain, acquired>>
                [] OTHER ->
                     /\ inflight' = {}
                     /\ acquired' = acquired \ Released(inflight)
                     /\ fences' = [fences EXCEPT ![image_i + 1] = 0]
                     /\ recreate_swapchain' = (recreate_swapchain \/ SetsRecreate(r))
                     /\ previous_fence_i' = image_i
                     /\ failures' = failures \cup {"then_signal_fence_and_flush"}
                     /\ status' = OnFlushError
                     /\ frame' = [frame EXCEPT !.previous = PreviousFuture,
                                                !.flush = r]
                     /\ EndIteration
    /\ UNCHANGED <<frames_in_flight, prog, created, hvars, svars, window_size, window_resized,
                   my_swapchain, viewport, command_buffers>>

\* The GPU finishes one submission: its fence is signalled and its image,
\* presented, becomes available again.
GpuCompleteFrame ==
    /\ prog = "graphics" /\ status = "running"
    /\ \E s \in inflight :
          /\ inflight' = inflight \ {s}
          /\ acquired' = acquired \ Released({s})
    /\ UNCHANGED <<frame, frames_in_flight, prog, status, pc, failures, created, hvars, svars,
                   window_size, window_resized, recreate_swapchain, my_swapchain,
                   viewport, command_buffers, fences, previous_fence_i, image_i,
                   waited>>

GraphicsNext ==
    \/ GraphicsSetup
    \/ GraphicsResources
    \/ CloseRequested
    \/ Resized
    \/ MainEventsCleared
    \/ AcquireNextImage
    \/ WaitImageFence
    \/ SubmitFrame
    \/ GpuCompleteFrame

HeadlessNext ==
    \/ Setup
    \/ CreateResources
    \/ RecordCommands
    \/ Submit
    \/ WaitFence
    \/ ReadBack
    \/ GpuExecute
    \/ GpuSignalFence

(***************************************************************************)
(* Device selection.  A physical device is what the selection expressions  *)
(* read of it: whether it supports khr_swapchain, its device type, and its *)
(* queue families, each with its GRAPHICS flag and the result of           *)
(* surface_support for it ("true", "false", or "err" for an Err).          *)
(***************************************************************************)
MaxDevices == 2
MaxFamilies == 2

DeviceTypes == {"DiscreteGpu", "IntegratedGpu", "VirtualGpu", "Cpu", "Other"}

QueueFamilies == [graphics : BOOLEAN, present : {"true", "false", "err"}]

FamilyLists == UNION {[1..n -> QueueFamilies] : n \in 0..MaxFamilies}

PhysicalDevices == [ext : BOOLEAN, type : DeviceTypes, families : FamilyLists]

DeviceLists == UNION {[1..n -> PhysicalDevices] : n \in 0..MaxDevices}

\* src/examples/graphics/main.rs:217-223: the key of min_by_key.
TypeRank(t) ==
    CASE t = "DiscreteGpu" -> 0
      [] t = "IntegratedGpu" -> 1
      [] t = "VirtualGpu" -> 2
      [] t = "Cpu" -> 3
      [] OTHER -> 4

\* Result::unwrap_or(false) of p.surface_support(i, &surface).
UnwrapOrFalse(r) == r = "true"

\* src/examples/graphics/main.rs:212-213: the predicate of position.
PresentsGraphics(q) == q.graphics /\ UnwrapOrFalse(q.present)

\* src/src/main.rs:42-46: the predicate of position in the other programs.
HasGraphics(q) == q.graphics

\* Iterator::position: the index (from 0) of the first element satisfying
\* the predicate, -1 for None.
\* `holds` is the predicate's value on each element, in order.
RECURSIVE PositionFrom(_, _)
PositionFrom(holds, i) ==
    IF i > Len(holds) THEN -1
    ELSE IF holds[i] THEN i - 1
    ELSE PositionFrom(holds, i + 1)

Position(holds) == PositionFrom(holds, 1)

\* filter(supported_extensions contains khr_swapchain), then filter_map to
\* (device, queue family index): the candidates, in enumeration order.
RECURSIVE CandidatesFrom(_, _)
CandidatesFrom(devs, i) ==
    IF i > Len(devs) THEN <<>>
    ELSE LET p == devs[i]
             q == Position([j \in 1..Len(p.families) |->
                               PresentsGraphics(p.families[j])])
         IN  IF p.ext /\ q # -1
             THEN <<[device |-> i - 1, family |-> q, key |-> TypeRank(p.type)]>>
                      \o CandidatesFrom(devs, i + 1)
             ELSE CandidatesFrom(devs, i + 1)

\* Iterator::min_by_key folds from the first element and replaces the
\* minimum only by an element whose key is strictly smaller.
KeepsMinLast(best, next) == best.key < next.key
KeepsMin(best, next) == best.key <= next.key

RECURSIVE MinByKeyFrom(_, _, _)
MinByKeyFrom(cands, best, i) ==
    IF i > Len(cands) THEN best
    ELSE MinByKeyFrom(cands, IF KeepsMin(best, cands[i]) THEN best ELSE cands[i], i + 1)

NoSelection == [found |-> FALSE, device |-> 0, family |-> 0, panic |-> ""]

\* src/examples/graphics/main.rs:203-224
WindowedSelect(devs) ==
    LET cands == CandidatesFrom(devs, 1)
    IN  IF cands = <<>>
        THEN [NoSelection EXCEPT !.panic = "no device available"]
        ELSE LET m == MinByKeyFrom(cands, cands[1], 2)
             IN  [found |-> TRUE, device |-> m.device, family |-> m.family,
                  panic |-> ""]

\* src/src/main.rs:33-47 (the same expression in the mandelbrot and images
\* programs): the first device, and its first GRAPHICS queue family.
HeadlessSelect(devs) ==
    IF devs = <<>>
    THEN [NoSelection EXCEPT !.panic = "no devices available"]
    ELSE LET q == Position([j \in 1..Len(devs[1].families) |->
                                 HasGraphics(devs[1].families[j])])
         IN  IF q = -1
             THEN [NoSelection EXCEPT !.panic = "couldn't find a graphical queue fmaily"]
             ELSE [found |-> TRUE, device |-> 0, family |-> q, panic |-> ""]

SelectWindowed ==
    /\ prog = "select" /\ pc = "enumerated"
    /\ selection' = WindowedSelect(devices)
    /\ pc' = "windowed"
    /\ status' = IF selection'.found THEN "running" ELSE "panicked"
    /\ UNCHANGED <<prog, failures, created, hvars, gvars, devices>>

SelectHeadless ==
    /\ prog = "select" /\ pc = "enumerated"
    /\ selection' = HeadlessSelect(devices)
    /\ pc' = "headless"
    /\ status' = IF selection'.found THEN "running" ELSE "panicked"
    /\ UNCHANGED <<prog, failures, created, hvars, gvars, devices>>

SelectNext == SelectWindowed \/ SelectHeadless

Programs == Headless \cup {"graphics"}

Common ==
    /\ status = "running"
    /\ failures = {}
    /\ created = [r \in Resources |-> 0]
    /\ stats = [builds |-> 0, submits |-> 0, waits |-> 0, reads |-> 0, files |-> {}]
    /\ commands = <<>>
    /\ gpu_pending = <<>>
    /\ fence = "none"
    /\ data_buffer = [len |-> 0, times |-> 1, upto |-> 0]
    /\ image = NoContent
    /\ buf = NoContent
    /\ content = NoContent
    /\ window_resized = FALSE
    /\ recreate_swapchain = FALSE
    /\ my_swapchain = NoSwapchain
    /\ viewport = <<0, 0>>
    /\ command_buffers = <<>>
    /\ fences = <<>>
    /\ frames_in_flight = 0
    /\ previous_fence_i = 0
    /\ image_i = 0
    /\ acquired = {}
    /\ inflight = {}
    /\ waited = FALSE
    /\ frame = NoFrame
    /\ selection = NoSelection

Init ==
    /\ prog \in Programs
    /\ pc = "setup"
    /\ window_size \in (IF prog = "graphics" THEN WindowSizes ELSE {<<0, 0>>})
    /\ devices = <<>>
    /\ Common

Next == HeadlessNext \/ GraphicsNext

\* One of the four programs runs.
Spec == Init /\ [][Next]_vars

\* One of the three programs without a window runs; the host thread and the
\* GPU both keep taking their steps.
InitHeadless == Init /\ prog \in Headless

SpecHeadless == InitHeadless /\ [][HeadlessNext]_vars

FairHeadless == SpecHeadless /\ WF_vars(HeadlessNext)

\* The selection expressions applied to every enumerated device list.
InitSelect ==
    /\ prog = "select"
    /\ pc = "enumerated"
    /\ devices \in DeviceLists
    /\ window_size = <<0, 0>>
    /\ Common

SpecSelect == InitSelect /\ [][SelectNext]_vars

(***************************************************************************)
(* The claims.                                                             *)
(***************************************************************************)

CopyOps == {"copy_buffer", "copy_buffer_to_image", "copy_image_to_buffer"}

C2_IsBufferCopy ==
    (prog = "dispatch" /\ status = "exited") =>
       /\ created["buffer"] = 2
       /\ \E k \in DOMAIN commands : commands[k].op \in CopyOps
       /\ \A i \in 0..(content.len - 1) : Elem(content, i) = i

\* C2 (amended): src/main.rs is a compute-dispatch program: it creates one
\* buffer, records bind-pipeline, bind-descriptor-sets and one dispatch of
\* [1024, 1, 1] work groups and no copy command, and after the fence wait
\* asserts that the buffer equals, element for element, the vector computed
\* on the CPU (each element of 0..65536 multiplied by 12).
C2_IsComputeDispatch ==
    prog = "dispatch" =>
       /\ created["buffer"] <= 1
       /\ stats.builds >= 1 =>
             /\ \A k \in DOMAIN commands : commands[k].op \notin CopyOps
             /\ Len(commands) = 3
             /\ commands[3] = [op |-> "dispatch", arg |-> <<1024, 1, 1>>]
       /\ status = "exited" =>
             /\ created["buffer"] = 1
             /\ content = data_buffer
             /\ \A i \in 0..(DataLen - 1) : Elem(content, i) = CpuBuffer(i)

C2_Witness ==
    /\ prog = "dispatch" /\ status = "exited"
    /\ created["buffer"] = 1 /\ Len(commands) = 3 /\ gpu_pending = <<>>

\* C4: in the three programs without a window the host reads the result
\* buffer only after wait(None) on the submitted command buffer's fence has
\* returned: no read happens while submitted GPU work is unfinished.
C4_ReadAfterFence ==
    (prog \in Headless /\ stats.reads > 0) =>
       /\ stats.waits = 1
       /\ stats.submits = 1
       /\ fence = "signalled"
       /\ gpu_pending = <<>>

C4_Witness ==
    /\ prog = "mandelbrot" /\ stats.reads = 1 /\ stats.waits = 1
    /\ content.kind = "shader_output"

C3_Handled ==
    IF prog = "graphics"
    THEN {"then_signal_fence_and_flush", "surface_support"}
    ELSE {}

C5_FencePerImage ==
    prog = "graphics" =>
       /\ pc = "submit" =>
             /\ image_i + 1 \in DOMAIN fences
             /\ waited <=> fences[image_i + 1] # 0
             /\ \A s \in inflight : s.image # image_i
       /\ \A s, t \in inflight : s.image = t.image => s = t

C5_Witness ==
    /\ prog = "graphics" /\ pc = "submit" /\ waited
    /\ \E s \in inflight : s.image # image_i

\* C6: in the windowed example a Resized event changes nothing but
\* window_resized (and the window's size); the step of the next
\* MainEventsCleared that leads to the acquisition recreates the swapchain
\* with the window's inner size, rebuilds framebuffers, pipeline (viewport =
\* the new size) and command buffers from the new swapchain's images, and
\* leaves window_resized and recreate_swapchain false.
C6_ResizeRecreatesAll ==
    [][ /\ (pc = "events" /\ ~window_resized /\ window_resized') =>
              UNCHANGED <<status, pc, created, recreate_swapchain, my_swapchain,
                          viewport, command_buffers, fences, previous_fence_i,
                          acquired, inflight>>
        /\ (pc = "events" /\ window_resized /\ pc' = "acquire") =>
              /\ my_swapchain'.gen = my_swapchain.gen + 1
              /\ my_swapchain'.extent = window_size
              /\ viewport' = window_size
              /\ Len(command_buffers') = my_swapchain'.count
              /\ \A i \in 1..my_swapchain'.count :
                    command_buffers'[i] =
                       [framebuffer |-> [attachment |-> <<my_swapchain'.gen, i - 1>>],
                        pipeline |-> [viewport |-> window_size]]
              /\ \A r \in {"swapchain", "framebuffers", "pipeline", "command_buffer"} :
                    created'[r] = created[r] + 1
              /\ acquired' = {}
              /\ ~window_resized' /\ ~recreate_swapchain'
      ]_vars

C6_Witness ==
    /\ prog = "graphics" /\ pc = "acquire" /\ status = "running"
    /\ my_swapchain = [gen |-> 1, extent |-> <<800, 600>>, count |-> 2]
    /\ viewport = <<800, 600>>
    /\ command_buffers[2].framebuffer.attachment = <<1, 1>>
    /\ command_buffers[2].pipeline.viewport = <<800, 600>>
    /\ inflight # {}

\* C7 (as stated): every GPU resource handle, swapchain, framebuffers,
\* pipeline and command buffers included, is created once per run and never
\* replaced, in every example.
C7_CreatedOnce ==
    \A r \in Resources : created[r] <= 1

C7_Replaced == {"swapchain", "framebuffers", "pipeline", "command_buffer"}

\* C7 (amended): in the three programs without a window every resource
\* handle is created once and never replaced.  In the windowed example that
\* holds of every handle but four: the swapchain is replaced at every
\* recreation (Resized or recreate_swapchain), and the framebuffers, the
\* pipeline and the command buffers at every recreation that follows a
\* Resized event.
C7_CreatedOnceUnlessRecreated ==
    /\ prog \in Headless => \A r \in Resources : created[r] <= 1
    /\ (prog \in Headless /\ status = "exited") =>
          \A r \in {"instance", "device", "queue", "buffer", "command_buffer"} :
             created[r] = 1
    /\ prog = "graphics" =>
          /\ \A r \in Resources \ C7_Replaced : created[r] <= 1
          /\ (status = "running" /\ pc \notin {"setup", "resources"}) =>
                /\ created["swapchain"] = my_swapchain.gen + 1
                /\ created["framebuffers"] = created["pipeline"]
                /\ created["pipeline"] = created["command_buffer"]
                /\ created["command_buffer"] >= 1
                /\ created["command_buffer"] <= created["swapchain"]
                /\ created["render_pass"] = 1

C7_Witness ==
    /\ prog = "graphics" /\ status = "running"
    /\ created["swapchain"] = 2 /\ created["pipeline"] = 2
    /\ created["device"] = 1

\* The claim's own reading of the selection, written without the operators
\* that model the code.
C8_Rank(t) ==
    IF t = "DiscreteGpu" THEN 0
    ELSE IF t = "IntegratedGpu" THEN 1
    ELSE IF t = "VirtualGpu" THEN 2
    ELSE IF t = "Cpu" THEN 3
    ELSE 4

\* The families (numbered from 0) of device d with GRAPHICS that present.
C8_PresentFamilies(d) ==
    {j \in 0..(Len(d.families) - 1) :
        d.families[j + 1].graphics /\ d.families[j + 1].present = "true"}

C8_GraphicsFamilies(d) ==
    {j \in 0..(Len(d.families) - 1) : d.families[j + 1].graphics}

\* The devices (numbered from 0) that qualify in the windowed example.
C8_Qualifying ==
    {i \in 0..(Len(devices) - 1) :
        devices[i + 1].ext /\ C8_PresentFamilies(devices[i + 1]) # {}}

\* C8: the windowed example picks, among the devices that support
\* khr_swapchain and have a GRAPHICS family that presents to the surface, one
\* of least type rank, the first enumerated among equals, with the lowest
\* such family, and panics with "no device available" if there is none; the
\* other examples pick the first device and its lowest GRAPHICS family and
\* panic if there is no device or no such family.
C8_DeviceSelection ==
    /\ pc = "windowed" =>
          IF C8_Qualifying = {}
          THEN ~selection.found /\ selection.panic = "no device available"
          ELSE /\ selection.found
               /\ selection.device \in C8_Qualifying
               /\ \A j \in C8_PresentFamilies(devices[selection.device + 1]) :
                     selection.family <= j
               /\ selection.family \in C8_PresentFamilies(devices[selection.device + 1])
               /\ \A k \in C8_Qualifying :
                     \/ C8_Rank(devices[selection.device + 1].type)
                           < C8_Rank(devices[k + 1].type)
                     \/ /\ C8_Rank(devices[selection.device + 1].type)
                              = C8_Rank(devices[k + 1].type)
                        /\ selection.device <= k
    /\ pc = "headless" =>
          IF devices = <<>> \/ C8_GraphicsFamilies(devices[1]) = {}
          THEN ~selection.found /\ selection.panic # ""
          ELSE /\ selection.found
               /\ selection.device = 0
               /\ selection.family \in C8_GraphicsFamilies(devices[1])
               /\ \A j \in C8_GraphicsFamilies(devices[1]) : selection.family <= j

C8_Witness ==
    /\ pc = "windowed" /\ Len(devices) = 2
    /\ C8_Qualifying = {0, 1}
    /\ devices[1].type = "IntegratedGpu" /\ devices[2].type = "IntegratedGpu"
    /\ devices[1].families[1].present = "err"
    /\ selection.found /\ selection.device = 0 /\ selection.family = 1

\* C9: each program without a window, when its calls succeed and the GPU
\* signals the fence, builds one command buffer, submits it once, waits on
\* its fence once and terminates, the mandelbrot program having written
\* exactly mandelbrot.png and the images program exactly image.png; none of
\* them builds, submits or waits a second time.
C9_Counts ==
    /\ stats.builds <= 1 /\ stats.submits <= 1
    /\ stats.waits <= 1 /\ stats.reads <= 1
    /\ status = "exited" =>
          /\ stats.builds = 1 /\ stats.submits = 1 /\ stats.waits = 1
          /\ stats.files = (IF prog = "mandelbrot" THEN {"mandelbrot.png"}
                            ELSE IF prog = "images" THEN {"image.png"}
                            ELSE {})
    /\ status # "exited" => stats.files = {}
    /\ (status # "running" /\ failures = {}) => status = "exited"

C9_OneSubmissionThenExit ==
    /\ []C9_Counts
    /\ <>(status # "running")
    /\ [][status # "running" => UNCHANGED vars]_vars

C9_Witness ==
    /\ prog = "images" /\ status = "exited"
    /\ stats = [builds |-> 1, submits |-> 1, waits |-> 1, reads |-> 1,
                files |-> {"image.png"}]

\* C10: in the windowed example every submitted command buffer was recorded
\* against a framebuffer built from image image_i of the swapchain that
\* image_i was acquired from.
C10_CommandBufferOfCurrentSwapchain ==
    \A s \in inflight :
       s.cb.framebuffer.attachment = <<s.swapchain, s.image>>

\* C11: in the windowed example the fences vector keeps the length
\* frames_in_flight for the whole run, and every index used to access fences
\* or command_buffers (image_i once acquired, previous_fence_i) is strictly
\* less than the length of the vector it indexes, so no access is out of
\* bounds, after any number of swapchain recreations.
C11_IndicesInBounds ==
    (prog = "graphics" /\ pc \in {"events", "acquire", "wait", "submit"}) =>
       /\ Len(fences) = frames_in_flight
       /\ previous_fence_i < Len(fences)
       /\ pc \in {"wait", "submit"} =>
             /\ image_i < Len(fences)
             /\ image_i < Len(command_buffers)
       /\ failures \cap {"fences[image_i]", "command_buffers[image_i]"} = {}

\* C12: in the windowed example, once acquire_next_image has reported
\* suboptimal or then_signal_fence_and_flush has failed with OutOfDate,
\* recreate_swapchain is true until the next MainEventsCleared iteration;
\* that iteration replaces the swapchain and resets the flag before it goes on
\* to acquire; and the flag is never true when an image is acquired.
C12_FlagSet ==
    (/\ prog = "graphics"
     /\ pc \in {"wait", "submit", "events"}
     /\ frame.suboptimal \/ frame.flush = "OutOfDate")
       => recreate_swapchain

C12_FalseAtAcquire ==
    (prog = "graphics" /\ pc = "acquire") => ~recreate_swapchain

C12_RecreatedFirst ==
    (/\ prog = "graphics" /\ pc = "events" /\ recreate_swapchain
     /\ pc' = "acquire")
       => /\ my_swapchain'.gen = my_swapchain.gen + 1
          /\ my_swapchain' # my_swapchain
          /\ ~recreate_swapchain'

C12_RecreateBeforeAcquire ==
    /\ []C12_FlagSet
    /\ []C12_FalseAtAcquire
    /\ [][C12_RecreatedFirst]_vars

\* The frame before failed with OutOfDate, no resize followed, and the
\* swapchain has been replaced before the acquisition now due.
C12_Witness ==
    /\ prog = "graphics" /\ status = "running" /\ pc = "acquire"
    /\ frame.flush = "OutOfDate"
    /\ my_swapchain.gen = 1
    /\ command_buffers[1].framebuffer.attachment[1] = 0
    /\ ~recreate_swapchain

\* C13: in the windowed example the future a frame joins with the acquire
\* future is fences[previous_fence_i] when that entry is Some and sync::now
\* otherwise; after every iteration previous_fence_i is the image index that
\* iteration acquired, whether or not the flush succeeded, and
\* fences[image_i] is Some exactly when that iteration's flush succeeded.
C13_JoinsPrevious ==
    (prog = "graphics" /\ pc = "submit" /\ pc' = "events")
       => frame'.previous = fences[previous_fence_i + 1]

C13_AfterIteration ==
    (prog = "graphics" /\ frame.flush # "none")
       => /\ previous_fence_i = frame.image_i
          /\ (fences[frame.image_i + 1] # 0) <=> (frame.flush = "Ok")

C13_ChainedAfterPrevious ==
    /\ [][C13_JoinsPrevious]_vars
    /\ []C13_AfterIteration

\* The second frame, on another image, joined the first frame's fence and
\* its flush failed.
C13_Witness ==
    /\ prog = "graphics" /\ status = "running" /\ pc = "events"
    /\ frame.flush \in {"OutOfDate", "OtherError"}
    /\ frame.image_i = 1
    /\ frame.previous # 0
    /\ previous_fence_i = 1
    /\ fences[2] = 0

\* C14: in the images example the recorded command buffer is exactly: clear
\* the image to blue (0,0,1,1), then copy the host buffer into the image; no
\* recorded command writes the host buffer, so the bytes read back and saved
\* to image.png are the bytes the buffer was created with: byte i is 255 if
\* i mod 4 is 0 or 3, and 0 otherwise.
C14_WritesBuffer == {"copy_image_to_buffer", "copy_buffer", "fill_buffer",
                     "update_buffer", "dispatch"}

C14_Byte(c, i) == c.texel[(i % 4) + 1]

\* A content repeats one texel, so the first texels and the last one stand
\* for every byte index below 1024 * 1024 * 4.
C14_Indices == (0..7) \cup ((1024 * 1024 * 4 - 4)..(1024 * 1024 * 4 - 1))

C14_IsRed(c) ==
    /\ c.kind = "texels"
    /\ c.len = 1024 * 1024 * 4
    /\ \A i \in C14_Indices :
          C14_Byte(c, i) = IF i % 4 \in {0, 3} THEN 255 ELSE 0

C14_BufferUnchanged ==
    prog = "images" =>
       /\ commands # <<>> =>
             /\ Len(commands) = 2
             /\ commands[1] = [op |-> "clear_color_image", arg |-> <<0, 0, 1, 1>>]
             /\ commands[2].op = "copy_buffer_to_image"
       /\ \A k \in DOMAIN commands : commands[k].op \notin C14_WritesBuffer
       /\ buf # NoContent => C14_IsRed(buf)
       /\ content # NoContent => C14_IsRed(content)
       /\ status = "exited" =>
             /\ C14_IsRed(content)
             /\ stats.files = {"image.png"}

\* The run has ended with image.png saved, after the GPU cleared the image
\* and overwrote it with the buffer's texels.
C14_Witness ==
    /\ prog = "images" /\ status = "exited"
    /\ "image.png" \in stats.files
    /\ content.texel = <<255, 0, 0, 255>>
    /\ image.texel = <<255, 0, 0, 255>>
    /\ gpu_pending = <<>>

\* C15: in the mandelbrot example the command buffer records the dispatch of
\* 128 x 128 x 1 work groups before the copy of the image into the host
\* buffer; the host buffer holds exactly 1024*1024*4 bytes, the byte size of
\* the 1024 x 1024 R8G8B8A8 image, so ImageBuffer::from_raw(1024, 1024, ..)
\* never returns None.
C15_Ops(op) == {k \in DOMAIN commands : commands[k].op = op}

C15_DispatchThenCopy ==
    prog = "mandelbrot" =>
       /\ commands # <<>> =>
             /\ \E d \in C15_Ops("dispatch"), c \in C15_Ops("copy_image_to_buffer") :
                   /\ C15_Ops("dispatch") = {d}
                   /\ C15_Ops("copy_image_to_buffer") = {c}
                   /\ d < c
                   /\ commands[d].arg = <<128, 128, 1>>
                   /\ commands[d].arg[1] = 1024 \div 8
       /\ buf # NoContent =>
             /\ buf.len = 1024 * 1024 * 4
             /\ buf.len = image.len
             /\ image.len = 1024 * 1024 * BytesPerTexel
       /\ "ImageBuffer::from_raw" \notin failures
       /\ status = "exited" => FromRawOk(1024, 1024, content)

\* The run has ended with mandelbrot.png saved from the shader's output,
\* copied into the buffer after the dispatch.
C15_Witness ==
    /\ prog = "mandelbrot" /\ status = "exited"
    /\ content.kind = "shader_output"
    /\ content.len = 1024 * 1024 * 4
    /\ stats.files = {"mandelbrot.png"}
    /\ stats.reads = 1

====
